---- MODULE Spec2Model ----
\* Solar monitor: the collector's poll loop (src/collector.py), its SQLite
\* tables readings and daily_summary, and the dashboard's JSON endpoints
\* (src/dashboard.py).
\*
\* Units.  A value the code scales (x * 0.1, x * 0.01) is kept as the integer
\* count of tenths (hundredths).  An SQL AVG and the generation_hours quotient
\* are kept as exact fractions <<numerator, denominator>>.
\* Time.  The wall clock is a count of instants; HourLen instants make one
\* hour and DayLen instants one UTC day, whose last hour is cut short when
\* DayLen is no multiple of HourLen.  A timestamp is the pair <<day, instant of
\* the day>>, which is what the zero-padded text "%Y-%m-%dT%H:%M:%SZ" is under
\* text comparison.
EXTENDS Integers, Sequences, FiniteSets, TLC

VARIABLES pc, step, data, rx, oddLen, session, readings, daily_summary,
          clock, tieBreak, result, startReadings, wire, request, response

vars == <<pc, step, data, rx, oddLen, session, readings, daily_summary,
          clock, tieBreak, result, startReadings, wire, request, response>>

\* ---------------------------------------------------------------- bounds
MaxReadings == 3
HourLen == 2
DayLen == 3
MaxTime == 3

\* ------------------------------------------------------------- constants
POLL_INTERVAL == 300

Dates == 0..(MaxTime \div DayLen)

\* ---------------------------------------------------------------- device
\* The eleven register reads of read_inverter, in the order of the code.
Reads ==
  << [addr |-> 3004, quantity |-> 2], [addr |-> 3006, quantity |-> 2],
     [addr |-> 3021, quantity |-> 2], [addr |-> 3023, quantity |-> 2],
     [addr |-> 3035, quantity |-> 1], [addr |-> 3038, quantity |-> 1],
     [addr |-> 3041, quantity |-> 1], [addr |-> 3042, quantity |-> 1],
     [addr |-> 3014, quantity |-> 1], [addr |-> 3008, quantity |-> 2],
     [addr |-> 3043, quantity |-> 1] >>

NumReads == Len(Reads)

\* Every sequence of n words whose k-th word is drawn from W[k].
WordSeqs(W) ==
  IF Len(W) = 1 THEN { <<a>> : a \in W[1] }
  ELSE { <<a, b>> : a \in W[1], b \in W[2] }

\* What a device may answer to one read: the words asked for, or one word
\* fewer, or one word more (the code never compares the length with quantity).
Answers(W) ==
  LET good == WordSeqs(W)
  IN  good \cup { SubSeq(r, 1, Len(r) - 1) : r \in good }
           \cup { Append(r, 7) : r \in good }

\* The words of a plant in ordinary operation, by read.
PlantWords ==
  << << {0}, {0, 500, 800} >>, << {0}, {40} >>,
     << {3100}, {21} >>, << {3050}, {20} >>,
     << {2301} >>, << {22} >>, << {255} >>, << {5001} >>,
     << {12} >>, << {0}, {4321} >>, << {3} >> >>

PlantDevice == [i \in 1..NumReads |-> WordSeqs(PlantWords[i])]

\* A plant whose energy-today counter is also seen lower than before (the
\* inverter resets it at its own midnight, which need not be the UTC one).
DriftWords == [PlantWords EXCEPT ![9] = << {5, 12} >>]
DriftDevice == [i \in 1..NumReads |-> WordSeqs(DriftWords[i])]

\* Words at the edges of the 16- and 32-bit ranges, by read.
EdgeWords ==
  << << {0, 1, 65535}, {0, 9029, 65535} >>,
     << {0, 32767, 32768, 65535}, {0, 65535} >>,
     << {3100}, {21} >>, << {3050}, {20} >>,
     << {2301} >>, << {22} >>, << {0, 255, 32767, 32768, 65535} >>, << {5001} >>,
     << {12} >>, << {0, 1, 65535}, {0, 65535} >>, << {3} >> >>

\* A device that may also answer with a wrong number of words.
EdgeDevice == [i \in 1..NumReads |-> Answers(EdgeWords[i])]

\* --------------------------------------------------------------- decoding
\* Python integers are unbounded and TLC's are 32-bit, so a value built from
\* two words is kept as the numeral
\* <<h, l>> = h * 65536 + l with 0 <= l < 65536 (h carries the sign).
Wide(h, l) == <<h + (l \div 65536), l % 65536>>
WideLess(a, b) == a[1] < b[1] \/ (a[1] = b[1] /\ a[2] < b[2])
WideSub(a, b) == Wide(a[1] - b[1], a[2] - b[2])
\* 2147483647 and 4294967296 as numerals.
Int32Max == <<32767, 65535>>
Two32 == <<65536, 0>>
\* The integer a numeral stands for, where it fits.
AsInt(w) == w[1] * 65536 + w[2]

\* (r[0] << 16) + r[1]
U32(r) == Wide(r[1], r[2])

\* S32 with the comparison off by one: val >= 2147483647.
S32Boundary(r) ==
  LET val == Wide(r[1], r[2])
  IN  IF ~WideLess(val, Int32Max) THEN WideSub(val, Two32) ELSE val

\* val - 4294967296 if val > 2147483647 else val
S32(r) ==
  LET val == Wide(r[1], r[2])
  IN  IF WideLess(Int32Max, val) THEN WideSub(val, Two32) ELSE val

\* val - 65536 if val > 32767 else val
S16(r) ==
  LET val == r[1]
  IN  IF val > 32767 THEN val - 65536 ELSE val

\* The highest index the code reads of the answer to read i, counted from 1.
Indexed(i) == IF i \in {1, 2, 3, 4, 10} THEN 2 ELSE 1

\* The entries read i adds to data.
Decoded(i, r) ==
  CASE i = 1  -> [active_power_w |-> U32(r)]
    [] i = 2  -> [reactive_power_var |-> S32(r)]
    [] i = 3  -> [pv1_voltage_v |-> r[1], pv1_current_a |-> r[2]]
    [] i = 4  -> [pv2_voltage_v |-> r[1], pv2_current_a |-> r[2]]
    [] i = 5  -> [ac_voltage_v |-> r[1]]
    [] i = 6  -> [ac_current_a |-> r[1]]
    [] i = 7  -> [temperature_c |-> S16(r)]
    [] i = 8  -> [grid_frequency_hz |-> r[1]]
    [] i = 9  -> [energy_today_kwh |-> r[1]]
    [] i = 10 -> [energy_total_kwh |-> U32(r)]
    [] i = 11 -> [status |-> r[1]]

NoData == << >>
NoAnswer == [read |-> 0, words |-> << >>]

\* ------------------------------------------------------------- timestamps
\* Strftime with the time of day written before the date.
StrftimeTimeFirst(t) == <<t % DayLen, t \div DayLen>>

\* strftime("%Y-%m-%dT%H:%M:%SZ") of the clock, and SQLite's date() of it.
Strftime(t) == <<t \div DayLen, t % DayLen>>
DateOf(ts) == ts[1]
Today(t) == t \div DayLen

\* Text comparison of two timestamps.
TsLess(a, b) == a[1] < b[1] \/ (a[1] = b[1] /\ a[2] < b[2])
TsLeq(a, b) == a = b \/ TsLess(a, b)

\* ----------------------------------------------------------------- tables
\* SQL NULL: what data.get leaves in a column whose key is missing.
NULL == 0 - 2000000000

\* NULL in a column of timestamps, which are pairs.
NullTime == <<NULL, NULL>>

Get(d, k) == IF k \in DOMAIN d THEN d[k] ELSE NULL
\* The same for a key whose value is a two-word numeral.
GetWide(d, k) == IF k \in DOMAIN d THEN AsInt(d[k]) ELSE NULL

\* The row store_reading inserts; id is the AUTOINCREMENT key.
Row(id, now, d) ==
  [id |-> id, timestamp |-> now,
   active_power_w |-> GetWide(d, "active_power_w"),
   reactive_power_var |-> GetWide(d, "reactive_power_var"),
   pv1_voltage_v |-> Get(d, "pv1_voltage_v"),
   pv1_current_a |-> Get(d, "pv1_current_a"),
   pv2_voltage_v |-> Get(d, "pv2_voltage_v"),
   pv2_current_a |-> Get(d, "pv2_current_a"),
   ac_voltage_v |-> Get(d, "ac_voltage_v"),
   ac_current_a |-> Get(d, "ac_current_a"),
   grid_frequency_hz |-> Get(d, "grid_frequency_hz"),
   temperature_c |-> Get(d, "temperature_c"),
   energy_today_kwh |-> Get(d, "energy_today_kwh"),
   energy_total_kwh |-> GetWide(d, "energy_total_kwh"),
   status |-> Get(d, "status")]

\* SQL aggregates over a set of row numbers; NULL values are skipped.
RECURSIVE SumOf(_, _, _)
SumOf(rs, col, I) ==
  IF I = {} THEN 0
  ELSE LET i == CHOOSE j \in I : TRUE
       IN  rs[i][col] + SumOf(rs, col, I \ {i})

NonNull(rs, col, I) == { i \in I : rs[i][col] # NULL }

\* SqlMax taking the value of the newest row in place of the greatest.
SqlNewest(rs, col, I) ==
  LET J == NonNull(rs, col, I)
  IN  IF J = {} THEN NULL
      ELSE LET m == CHOOSE j \in J : \A k \in J : k <= j
           IN  rs[m][col]

SqlMax(rs, col, I) ==
  LET J == NonNull(rs, col, I)
  IN  IF J = {} THEN NULL
      ELSE LET m == CHOOSE j \in J : \A k \in J : rs[k][col] <= rs[j][col]
           IN  rs[m][col]

SqlAvg(rs, col, I) ==
  LET J == NonNull(rs, col, I)
  IN  IF J = {} THEN NULL ELSE <<SumOf(rs, col, J), Cardinality(J)>>

\* WHERE date(timestamp) = d
OnDate(rs, d) == { i \in 1..Len(rs) : DateOf(rs[i].timestamp) = d }

\* WHERE date(timestamp) = d AND active_power_w > 0
Generating(rs, d) ==
  { i \in OnDate(rs, d) : rs[i].active_power_w # NULL /\ rs[i].active_power_w > 0 }

\* PeakRow with ORDER BY active_power_w ASC.
PeakRowAsc(rs, d, tb) ==
  LET I == OnDate(rs, d)
      J == NonNull(rs, "active_power_w", I)
      top == IF J = {} THEN I
             ELSE { j \in J : \A k \in J : rs[j].active_power_w <= rs[k].active_power_w }
  IN  IF top = {} THEN 0
      ELSE IF tb = "first" THEN CHOOSE j \in top : \A k \in top : j <= k
      ELSE CHOOSE j \in top : \A k \in top : k <= j

\* ORDER BY active_power_w DESC LIMIT 1 over the rows of date d: a row of the
\* greatest power (NULL sorts last).  SQL leaves the order of rows with equal
\* keys to the engine; tb is the engine's order among them, by rowid.
PeakRow(rs, d, tb) ==
  LET I == OnDate(rs, d)
      J == NonNull(rs, "active_power_w", I)
      top == IF J = {} THEN I
             ELSE { j \in J : \A k \in J : rs[k].active_power_w <= rs[j].active_power_w }
  IN  IF top = {} THEN 0
      ELSE IF tb = "first" THEN CHOOSE j \in top : \A k \in top : j <= k
      ELSE CHOOSE j \in top : \A k \in top : k <= j

\* The row update_daily_summary computes for today.
SummaryRow(rs, today, tb) ==
  LET G == Generating(rs, today)
      peak_row == PeakRow(rs, today, tb)
  IN  [date |-> today,
       energy_kwh |-> SqlMax(rs, "energy_today_kwh", G),
       peak_power_w |-> SqlMax(rs, "active_power_w", G),
       peak_power_time |-> IF peak_row # 0 THEN rs[peak_row].timestamp ELSE NullTime,
       avg_temperature_c |-> SqlAvg(rs, "temperature_c", G),
       generation_hours |-> <<Cardinality(G) * POLL_INTERVAL, 60>>]

\* Upsert that adds the new generation_hours to those of the row it replaces.
UpsertAccumulate(ds, row) ==
  [d \in DOMAIN ds \cup {row.date} |->
     IF d # row.date THEN ds[d]
     ELSE IF d \in DOMAIN ds
          THEN [row EXCEPT !.generation_hours =
                  <<row.generation_hours[1] + ds[d].generation_hours[1], 60>>]
          ELSE row]

\* INSERT OR REPLACE INTO daily_summary, keyed by date.
Upsert(ds, row) ==
  [d \in DOMAIN ds \cup {row.date} |-> IF d = row.date THEN row ELSE ds[d]]

\* SummaryAfter without the test of row[0]: the upsert is unconditional.
SummaryAfterUnguarded(rs, ds, today, tb) == Upsert(ds, SummaryRow(rs, today, tb))

\* daily_summary after update_daily_summary ran with the given today.
SummaryAfter(rs, ds, today, tb) ==
  LET row == SummaryRow(rs, today, tb)
  IN  IF row.energy_kwh # NULL THEN Upsert(ds, row) ELSE ds

\* api_live: SELECT * FROM readings ORDER BY timestamp DESC LIMIT 1.
ApiLive(rs, tb) ==
  LET I == 1..Len(rs)
      top == { j \in I : \A k \in I : TsLeq(rs[k].timestamp, rs[j].timestamp) }
  IN  IF top = {} THEN 0
      ELSE IF tb = "first" THEN CHOOSE j \in top : \A k \in top : j <= k
      ELSE CHOOSE j \in top : \A k \in top : k <= j

\* -------------------------------------------------------------- dashboard
\* request.args.get(k, default) and request.args.get(k) or default; the
\* arguments of a request are a function from the names given to their values.
ArgsGet(args, k, default) == IF k \in DOMAIN args THEN args[k] ELSE default

\* timedelta(days=7); the default of days; the minutes per reading that the
\* fallback of api_daily_summary counts (COUNT(*) * 5.0 / 60).
HistoryDays == 7
DefaultDays == 30
FallbackMinutes == 5

\* LIMIT 7 of api_stats.
StatsDays == 7

\* HourKey with the format '%Y-%m-%d': the key of the GROUP BY is the date.
HourKeyDate(ts) == <<ts[1], 0>>

\* strftime('%Y-%m-%dT%H', timestamp) and strftime('%Y-%m-%dT%H:00:00Z', ...).
HourKey(ts) == <<ts[1], ts[2] \div HourLen>>
HourStart(ts) == <<ts[1], (ts[2] \div HourLen) * HourLen>>

\* WHERE date(timestamp) >= start AND date(timestamp) <= end
InRange(rs, start, end) ==
  { i \in 1..Len(rs) :
      DateOf(rs[i].timestamp) >= start /\ DateOf(rs[i].timestamp) <= end }

\* ORDER BY over distinct keys: timestamps ascending, dates descending.
RECURSIVE OrderStamps(_)
OrderStamps(S) ==
  IF S = {} THEN << >>
  ELSE LET m == CHOOSE x \in S : \A y \in S : TsLeq(x, y)
       IN  <<m>> \o OrderStamps(S \ {m})

RECURSIVE OrderDatesDesc(_)
OrderDatesDesc(S) ==
  IF S = {} THEN << >>
  ELSE LET m == CHOOSE x \in S : \A y \in S : y <= x
       IN  <<m>> \o OrderDatesDesc(S \ {m})

Reversed(q) == [n \in 1..Len(q) |-> q[Len(q) + 1 - n]]

\* ORDER BY timestamp over rows: equal timestamps in the engine's order.
RECURSIVE OrderByTimestamp(_, _, _)
OrderByTimestamp(rs, I, tb) ==
  IF I = {} THEN << >>
  ELSE LET low == { i \in I : \A k \in I : TsLeq(rs[i].timestamp, rs[k].timestamp) }
           i == IF tb = "first" THEN CHOOSE j \in low : \A k \in low : j <= k
                ELSE CHOOSE j \in low : \A k \in low : k <= j
       IN  <<i>> \o OrderByTimestamp(rs, I \ {i}, tb)

\* LIMIT n; a negative n is no limit.
Limit(q, n) ==
  IF n < 0 \/ n >= Len(q) THEN q ELSE SubSeq(q, 1, n)

\* The columns api_today and the raw branch of api_history select.
Selected(r) ==
  [timestamp |-> r.timestamp, active_power_w |-> r.active_power_w,
   pv1_voltage_v |-> r.pv1_voltage_v, pv1_current_a |-> r.pv1_current_a,
   ac_voltage_v |-> r.ac_voltage_v, temperature_c |-> r.temperature_c,
   energy_today_kwh |-> r.energy_today_kwh]

RowsOf(rs, I, tb) ==
  LET q == OrderByTimestamp(rs, I, tb)
  IN  [n \in 1..Len(q) |-> Selected(rs[q[n]])]

\* api_today.
ApiToday(rs, today, tb) == RowsOf(rs, OnDate(rs, today), tb)

\* The hourly query without its GROUP BY: one aggregate row over the whole
\* range, labelled by one of its rows (NULL when it has none).
HourlyRowsUngrouped(rs, start, end) ==
  LET I == InRange(rs, start, end)
  IN  << [timestamp |-> IF I = {} THEN NULL
                        ELSE HourStart(rs[CHOOSE i \in I : TRUE].timestamp),
          active_power_w |-> SqlAvg(rs, "active_power_w", I),
          peak_power_w |-> SqlMax(rs, "active_power_w", I),
          pv1_voltage_v |-> SqlAvg(rs, "pv1_voltage_v", I),
          ac_voltage_v |-> SqlAvg(rs, "ac_voltage_v", I),
          temperature_c |-> SqlAvg(rs, "temperature_c", I),
          energy_today_kwh |-> SqlMax(rs, "energy_today_kwh", I)] >>

\* api_history, resolution "hourly": GROUP BY the hour, ORDER BY its label.
HourlyRows(rs, start, end) ==
  LET I == InRange(rs, start, end)
      B(h) == { i \in I : HourKey(rs[i].timestamp) = HourKey(h) }
      q == OrderStamps({ HourStart(rs[i].timestamp) : i \in I })
  IN  [n \in 1..Len(q) |->
         [timestamp |-> q[n],
          active_power_w |-> SqlAvg(rs, "active_power_w", B(q[n])),
          peak_power_w |-> SqlMax(rs, "active_power_w", B(q[n])),
          pv1_voltage_v |-> SqlAvg(rs, "pv1_voltage_v", B(q[n])),
          ac_voltage_v |-> SqlAvg(rs, "ac_voltage_v", B(q[n])),
          temperature_c |-> SqlAvg(rs, "temperature_c", B(q[n])),
          energy_today_kwh |-> SqlMax(rs, "energy_today_kwh", B(q[n]))]]

\* api_history, resolution "daily": GROUP BY date(timestamp).
DailyRows(rs, start, end) ==
  LET I == InRange(rs, start, end)
      B(d) == { i \in I : DateOf(rs[i].timestamp) = d }
      q == Reversed(OrderDatesDesc({ DateOf(rs[i].timestamp) : i \in I }))
  IN  [n \in 1..Len(q) |->
         [timestamp |-> q[n],
          active_power_w |-> SqlAvg(rs, "active_power_w", B(q[n])),
          peak_power_w |-> SqlMax(rs, "active_power_w", B(q[n])),
          temperature_c |-> SqlAvg(rs, "temperature_c", B(q[n])),
          energy_today_kwh |-> SqlMax(rs, "energy_today_kwh", B(q[n]))]]

\* DefaultStart without the timedelta: the current date.
DefaultStartToday(now) == Today(now)

\* The start api_history uses when the request gives none.
DefaultStart(now) == Today(now - HistoryDays * DayLen)

\* api_history: the branch is chosen by comparing resolution with "hourly"
\* and "daily"; every other value takes the else branch.
ApiHistory(rs, args, now, tb) ==
  LET start == ArgsGet(args, "start", DefaultStart(now))
      end == ArgsGet(args, "end", Today(now))
      resolution == ArgsGet(args, "resolution", "raw")
  IN  IF resolution = "hourly" THEN HourlyRows(rs, start, end)
      ELSE IF resolution = "daily" THEN DailyRows(rs, start, end)
      ELSE RowsOf(rs, InRange(rs, start, end), tb)

\* The fallback query of api_daily_summary, before its LIMIT.
FallbackRows(rs) ==
  LET P == { i \in 1..Len(rs) : rs[i].active_power_w # NULL /\ rs[i].active_power_w > 0 }
      B(d) == { i \in P : DateOf(rs[i].timestamp) = d }
      q == OrderDatesDesc({ DateOf(rs[i].timestamp) : i \in P })
  IN  [n \in 1..Len(q) |->
         [date |-> q[n],
          energy_kwh |-> SqlMax(rs, "energy_today_kwh", B(q[n])),
          peak_power_w |-> SqlMax(rs, "active_power_w", B(q[n])),
          peak_power_time |-> NullTime,
          avg_temperature_c |-> SqlAvg(rs, "temperature_c", B(q[n])),
          generation_hours |-> <<Cardinality(B(q[n])) * FallbackMinutes, 60>>]]

\* api_daily_summary: the stored rows, newest date first, or the fallback.
ApiDailySummary(rs, ds, args) ==
  LET days == ArgsGet(args, "days", DefaultDays)
      q == OrderDatesDesc(DOMAIN ds)
      rows == Limit([n \in 1..Len(q) |-> ds[q[n]]], days)
  IN  IF rows # << >> THEN rows ELSE Limit(FallbackRows(rs), days)

\* api_stats.
ApiStats(rs, today, tb) ==
  LET all == 1..Len(rs)
      T == OnDate(rs, today)
      q == OrderDatesDesc({ DateOf(rs[i].timestamp) : i \in all })
      stamps == OrderStamps({ rs[i].timestamp : i \in all })
  IN  [current |-> IF ApiLive(rs, tb) = 0 THEN << >> ELSE rs[ApiLive(rs, tb)],
       today |-> [energy_today |-> SqlMax(rs, "energy_today_kwh", T),
                  peak_power_today |-> SqlMax(rs, "active_power_w", T),
                  avg_temp_today |-> SqlAvg(rs, "temperature_c", T),
                  readings_today |-> Cardinality(T)],
       all_time |-> [total_readings |-> Len(rs),
                     first_reading |-> IF all = {} THEN NULL ELSE stamps[1],
                     last_reading |-> IF all = {} THEN NULL ELSE stamps[Len(stamps)],
                     all_time_peak_power |-> SqlMax(rs, "active_power_w", all)],
       last_7_days |->
         Limit([n \in 1..Len(q) |->
                  [date |-> q[n],
                   energy_kwh |-> SqlMax(rs, "energy_today_kwh", OnDate(rs, q[n]))]],
               StatsDays)]

\* The JSON body with which the endpoint of a request answers.
Body(rq, rs, ds, now, tb) ==
  CASE rq.endpoint = "live" -> IF ApiLive(rs, tb) = 0 THEN << >> ELSE rs[ApiLive(rs, tb)]
    [] rq.endpoint = "today" -> ApiToday(rs, Today(now), tb)
    [] rq.endpoint = "history" -> ApiHistory(rs, rq.args, now, tb)
    [] rq.endpoint = "daily_summary" -> ApiDailySummary(rs, ds, rq.args)
    [] rq.endpoint = "stats" -> ApiStats(rs, Today(now), tb)

NoRequest == [endpoint |-> "none", args |-> << >>]
NoResponse == [status |-> 0, body |-> << >>]

\* ------------------------------------------------------------------- wire
NoWire == [opens |-> 0, closes |-> 0, reads |-> << >>]

\* modbus.read_input_registers(register_addr=addr, ...) is called.
Issued(w, addr) == [w EXCEPT !.reads = Append(@, addr)]

\* The finally clause left out: disconnect is never called.
NotDisconnected(w) == w

\* finally: modbus.disconnect().
Disconnected(w) == [w EXCEPT !.closes = @ + 1]

\* ------------------------------------------------------------------ state
\* pc            where main is: "connect" (a cycle starts), "read", "store",
\*               "summary", "sleep"
\* step          the read of Reads that read_inverter makes next
\* data          read_inverter's dict, then main's
\* rx            read_inverter's r: the read last answered and its words
\* oddLen        some answer of this cycle had a length other than quantity
\* session       the modbus session of the cycle
\* readings, daily_summary   the two tables, as committed
\* clock         the latest instant the wall clock is known to have reached
\* tieBreak      the SQL engine's order among rows with equal sort keys
\* result        how the cycle ended ("running" while it has not)
\* startReadings readings as the cycle found it
\* wire          the cycle's traffic with the device: sessions opened, calls
\*               of disconnect, addresses of the reads issued
\* request       the dashboard request last served, and
\* response      the JSON answer to it, where the answers are recorded
Init ==
  /\ pc = "connect"
  /\ step = 1
  /\ data = NoData
  /\ rx = NoAnswer
  /\ oddLen = FALSE
  /\ session = "none"
  /\ readings = << >>
  /\ daily_summary = << >>
  /\ clock = 0
  /\ tieBreak \in {"first", "last"}
  /\ result = "none"
  /\ startReadings = << >>
  /\ wire = NoWire
  /\ request = NoRequest
  /\ response = NoResponse

\* ---------------------------------------------------------- read_inverter
\* PySolarmanV5(...) opens the session of the cycle.
Connect ==
  /\ pc = "connect"
  /\ pc' = "read"
  /\ step' = 1
  /\ data' = NoData
  /\ rx' = NoAnswer
  /\ oddLen' = FALSE
  /\ session' = "open"
  /\ result' = "running"
  /\ startReadings' = readings
  /\ wire' = [opens |-> 1, closes |-> 0, reads |-> << >>]
  /\ UNCHANGED <<readings, daily_summary, clock, tieBreak, request, response>>

\* The constructor raises: no session, and main's except takes the cycle.
ConnectFails ==
  /\ pc = "connect"
  /\ pc' = "sleep"
  /\ step' = 1
  /\ data' = NoData
  /\ rx' = NoAnswer
  /\ oddLen' = FALSE
  /\ session' = "none"
  /\ result' = "connect_failed"
  /\ startReadings' = readings
  /\ wire' = NoWire
  /\ UNCHANGED <<readings, daily_summary, clock, tieBreak, request, response>>

\* ReadAborted with the exception swallowed: read_inverter returns the dict
\* as far as it was filled and main goes on to store it.
ReadAbortedSwallowed ==
  /\ pc' = "store"
  /\ session' = "closed"
  /\ data' = data

\* except: log, raise; finally: disconnect.  The exception leaves
\* read_inverter, whose dict is lost, and main's except ends the cycle.
ReadAborted ==
  /\ pc' = "sleep"
  /\ session' = "closed"
  /\ data' = NoData

\* One read_input_registers call that returns, and the decoding of its answer.
\* An answer shorter than the highest index read raises IndexError.
ReadRegisters(device) ==
  /\ pc = "read"
  /\ \E r \in device[step] :
       /\ oddLen' = (oddLen \/ Len(r) # Reads[step].quantity)
       /\ IF Len(r) >= Indexed(step)
          THEN /\ data' = Decoded(step, r) @@ data
               /\ IF step < NumReads
                  THEN /\ step' = step + 1
                       /\ rx' = [read |-> step, words |-> r]
                       /\ wire' = Issued(wire, Reads[step].addr)
                       /\ UNCHANGED <<pc, session, result>>
                  ELSE /\ pc' = "store"
                       /\ session' = "closed"
                       /\ rx' = NoAnswer
                       /\ wire' = Disconnected(Issued(wire, Reads[step].addr))
                       /\ UNCHANGED <<step, result>>
          ELSE /\ ReadAborted
               /\ result' = "read_failed"
               /\ rx' = NoAnswer
               /\ wire' = Disconnected(Issued(wire, Reads[step].addr))
               /\ UNCHANGED step
  /\ UNCHANGED <<readings, daily_summary, clock, tieBreak, startReadings,
                 request, response>>

\* One read_input_registers call that raises (timeout, bad frame).
ReadFails ==
  /\ pc = "read"
  /\ ReadAborted
  /\ result' = "read_failed"
  /\ rx' = NoAnswer
  /\ wire' = Disconnected(Issued(wire, Reads[step].addr))
  /\ UNCHANGED <<step, oddLen, readings, daily_summary, clock, tieBreak,
                 startReadings, request, response>>

\* ---------------------------------------------------------- store_reading
\* store_reading with INSERT OR REPLACE under the id of the last row: the
\* row written replaces it.
StoreReadingReplace ==
  /\ pc = "store"
  /\ \E t \in clock..MaxTime :
       /\ clock' = t
       /\ readings' = IF readings = << >>
                      THEN <<Row(1, Strftime(t), data)>>
                      ELSE [readings EXCEPT ![Len(readings)] =
                              Row(Len(readings), Strftime(t), data)]
  /\ pc' = "summary"
  /\ UNCHANGED <<step, data, rx, oddLen, session, daily_summary, tieBreak,
                 result, startReadings, wire, request, response>>

\* now is the wall clock at the call, which is not earlier than the latest
\* instant already seen; the row is inserted and committed.  The table holds
\* at most MaxReadings rows and the clock ends at MaxTime: beyond either only
\* StoreFails is left.
StoreReading ==
  /\ pc = "store"
  /\ Len(readings) < MaxReadings
  /\ \E t \in clock..MaxTime :
       /\ clock' = t
       /\ readings' = Append(readings, Row(Len(readings) + 1, Strftime(t), data))
  /\ pc' = "summary"
  /\ UNCHANGED <<step, data, rx, oddLen, session, daily_summary, tieBreak,
                 result, startReadings, wire, request, response>>

\* StoreFails with the exception leaving main: the process ends.
StoreFailsUncaught ==
  /\ pc = "store"
  /\ pc' = "exit"
  /\ result' = "store_failed"
  /\ UNCHANGED <<step, data, rx, oddLen, session, readings, daily_summary,
                 clock, tieBreak, startReadings, wire, request, response>>

\* execute or commit raises: nothing is inserted.
StoreFails ==
  /\ pc = "store"
  /\ pc' = "sleep"
  /\ result' = "store_failed"
  /\ UNCHANGED <<step, data, rx, oddLen, session, readings, daily_summary,
                 clock, tieBreak, startReadings, wire, request, response>>

\* --------------------------------------------------- update_daily_summary
\* today is the date of the wall clock at this call, a second reading of the
\* clock after the one store_reading made.
UpdateDailySummary ==
  /\ pc = "summary"
  /\ \E t \in clock..MaxTime :
       /\ clock' = t
       /\ daily_summary' = SummaryAfter(readings, daily_summary, Today(t), tieBreak)
  /\ pc' = "sleep"
  /\ result' = "ok"
  /\ UNCHANGED <<step, data, rx, oddLen, session, readings, tieBreak,
                 startReadings, wire, request, response>>

\* A query or the commit raises: daily_summary keeps its rows.
UpdateFails ==
  /\ pc = "summary"
  /\ pc' = "sleep"
  /\ result' = "summary_failed"
  /\ UNCHANGED <<step, data, rx, oddLen, session, readings, daily_summary,
                 clock, tieBreak, startReadings, wire, request, response>>

\* ------------------------------------------------------------------- main
\* time.sleep(POLL_INTERVAL): the next cycle starts at a later instant (the
\* timestamps have a resolution of one second, POLL_INTERVAL is 300 and the
\* reads of a cycle are paced by ten sleeps of 0.3 s).  MaxTime + 1 stands for
\* every instant past the last one of the model.
Sleep ==
  /\ pc = "sleep"
  /\ pc' = "connect"
  /\ clock' = IF clock <= MaxTime THEN clock + 1 ELSE clock
  /\ UNCHANGED <<step, data, rx, oddLen, session, readings, daily_summary,
                 tieBreak, result, startReadings, wire, request, response>>

\* -------------------------------------------------------------- dashboard
\* The dashboard is a second process on the same database file.  It serves
\* one request: it opens a connection, runs the SELECTs of the endpoint over
\* the committed tables, closes it and sends the answer.  The answer is the
\* client's; the model keeps the last one where recorded is TRUE, and where
\* it is not, serving any of the requests is the same step.
Serve(requests, recorded) ==
  /\ IF recorded
     THEN \E rq \in requests :
            /\ request' = rq
            /\ response' = [status |-> 200,
                            body |-> Body(rq, readings, daily_summary, clock, tieBreak)]
     ELSE requests # {} /\ UNCHANGED <<request, response>>
  /\ UNCHANGED <<pc, step, data, rx, oddLen, session, readings, daily_summary,
                 clock, tieBreak, result, startReadings, wire>>

\* Requests: every choice of arguments given or left out.
WithArg(S, k, V) ==
  S \cup { [x \in DOMAIN a \cup {k} |-> IF x = k THEN v ELSE a[x]] : a \in S, v \in V }

QueryToday == HistoryDays + 2
QueryDates == {0, QueryToday}
Resolutions == {"raw", "hourly", "daily", "weekly"}

HistoryRequests ==
  { [endpoint |-> "history", args |-> a] :
      a \in WithArg(WithArg(WithArg({<< >>}, "start", QueryDates), "end", QueryDates),
                    "resolution", Resolutions) }
SummaryRequests ==
  { [endpoint |-> "daily_summary", args |-> a] : a \in WithArg({<< >>}, "days", {1}) }
PlainRequests ==
  { [endpoint |-> e, args |-> << >>] : e \in {"live", "today", "stats"} }
\* Each endpoint asked without arguments.
DefaultRequests ==
  { [endpoint |-> e, args |-> << >>] :
      e \in {"live", "today", "history", "daily_summary", "stats"} }

Next ==
  \/ Connect
  \/ ConnectFails
  \/ ReadRegisters(PlantDevice)
  \/ ReadFails
  \/ StoreReading
  \/ StoreFails
  \/ UpdateDailySummary
  \/ UpdateFails
  \/ Sleep
  \/ Serve(DefaultRequests, FALSE)

Spec == Init /\ [][Next]_vars

\* The process keeps running and every call of the loop returns or raises (the
\* socket has a timeout, the sleep ends), so a step that can be taken is taken.
FairSpec == Spec /\ WF_vars(Next)

\* One call of read_inverter against a device that answers with words at the
\* edges of the ranges, and with wrong word counts.
NextDecode ==
  \/ Connect
  \/ ConnectFails
  \/ ReadRegisters(EdgeDevice)
  \/ ReadFails

SpecDecode == Init /\ [][NextDecode]_vars

\* The poll loop against the plant with the drifting counter, in cycles whose
\* reads succeed, over an engine that orders equal keys by rowid.
RefreshInit == Init /\ tieBreak = "first"

NextRefresh ==
  \/ Connect
  \/ ReadRegisters(DriftDevice)
  \/ StoreReading
  \/ StoreFails
  \/ UpdateDailySummary
  \/ UpdateFails
  \/ Sleep

SpecRefresh == RefreshInit /\ [][NextRefresh]_vars

\* The dashboard over a database the collector has filled, the collector
\* being between two cycles.  The tables hold up to MaxReadings readings at
\* increasing timestamps: two in the first hour of day 0, one in its second
\* hour, one HistoryDays before the current date, which is QueryToday.
QueryStamps == { <<0, 0>>, <<0, 1>>, <<0, HourLen>>, <<QueryToday - HistoryDays, 0>> }
QueryPowers == {0, 100, 300}

\* The dict read_inverter returns from a plant whose active power is p.
RECURSIVE ReadAll(_, _)
ReadAll(ws, n) == IF n = 0 THEN NoData ELSE Decoded(n, ws[n]) @@ ReadAll(ws, n - 1)
QueryData(p) ==
  ReadAll([n \in 1..NumReads |->
             IF n = 1 THEN <<0, p>> ELSE CHOOSE r \in PlantDevice[n] : TRUE],
          NumReads)

QueryTables ==
  UNION { { [n \in 1..Cardinality(S) |->
               Row(n, OrderStamps(S)[n], QueryData(f[OrderStamps(S)[n]]))] :
            f \in [S -> QueryPowers] } :
          S \in { T \in SUBSET QueryStamps : Cardinality(T) <= MaxReadings } }

\* daily_summary when update_daily_summary ran on the date of each reading.
Collected(rs, tb) ==
  [d \in { DateOf(rs[i].timestamp) :
             i \in { j \in 1..Len(rs) : rs[j].active_power_w > 0 } } |->
     SummaryRow(rs, d, tb)]

QueryInit ==
  /\ pc = "connect"
  /\ step = 1
  /\ data = NoData
  /\ rx = NoAnswer
  /\ oddLen = FALSE
  /\ session = "none"
  /\ readings \in QueryTables
  /\ tieBreak \in {"first", "last"}
  /\ daily_summary \in { << >>, Collected(readings, tieBreak) }
  /\ clock = QueryToday * DayLen
  /\ result = "none"
  /\ startReadings = << >>
  /\ wire = NoWire
  /\ request = NoRequest
  /\ response = NoResponse

NextQuery ==
  \/ Serve(HistoryRequests, TRUE)
  \/ Serve(SummaryRequests, TRUE)
  \/ Serve(PlainRequests, TRUE)

SpecQuery == QueryInit /\ [][NextQuery]_vars

\* ================================================================= claims
Failed == {"connect_failed", "read_failed", "store_failed", "summary_failed"}

\* update_daily_summary has just returned normally; the date it took is the
\* date of clock.
Refreshed == pc = "sleep" /\ result = "ok"

\* Equality of two fractions <<numerator, denominator>>.
RatEq(a, b) == a[1] * b[2] = b[1] * a[2]

\* The rows of date d whose power is the greatest of the date.
AtPeak(rs, d) ==
  { i \in OnDate(rs, d) :
      \A k \in OnDate(rs, d) : rs[k].active_power_w <= rs[i].active_power_w }

\* C1. Cycle atomicity: a cycle in which a register read raised has not
\* touched readings: the table is, row for row, the one the cycle found,
\* whichever read it was that failed.
CycleAtomicity ==
  result = "read_failed" => readings = startReadings

\* A cycle whose last read, of eleven, failed, over a table that has rows.
CycleAtomicityWitness ==
  /\ result = "read_failed"
  /\ step = NumReads
  /\ pc = "sleep"
  /\ Len(readings) > 0

\* C2. Resilience: whatever fails in a cycle, the loop goes on: a cycle is
\* started infinitely often.
Resilience == []<>(pc = "connect")

\* A cycle starts after a cycle that failed.
ResilienceWitness == pc = "connect" /\ result \in Failed /\ Len(readings) > 0

\* C3. Daily summary consistency: when no cycle is in progress and the last
\* cycle succeeded, every date with a generating reading has a daily_summary
\* row equal to the summary recomputed from all readings of that date.
SummaryConsistent ==
  (pc \in {"sleep", "connect"} /\ result = "ok") =>
    \A d \in Dates :
      Generating(readings, d) # {} =>
        /\ d \in DOMAIN daily_summary
        /\ daily_summary[d] = SummaryRow(readings, d, tieBreak)

\* C4. Daily aggregation: the row update_daily_summary has just stored for
\* today has peak_power_w = the greatest active power of the date and
\* generation_hours = (readings with active power > 0) * POLL_INTERVAL / 3600.
GenerationHoursFromSeconds ==
  (Refreshed /\ Today(clock) \in DOMAIN daily_summary) =>
    LET row == daily_summary[Today(clock)]
        G == Generating(readings, Today(clock))
    IN  /\ \A i \in OnDate(readings, Today(clock)) :
             readings[i].active_power_w <= row.peak_power_w
        /\ \E i \in G : readings[i].active_power_w = row.peak_power_w
        /\ RatEq(row.generation_hours, <<Cardinality(G) * POLL_INTERVAL, 3600>>)

RefreshIdempotent ==
  \A d \in Dates :
    LET once == SummaryAfter(readings, daily_summary, d, tieBreak)
    IN  SummaryAfter(readings, once, d, tieBreak) = once

\* The summary of a date with tied peaks exists, so a refresh replaces a row.
RefreshIdempotentWitness ==
  \E d \in DOMAIN daily_summary :
    /\ Cardinality(AtPeak(readings, d)) >= 2
    /\ SummaryAfter(readings, daily_summary, d, tieBreak) = daily_summary
    /\ pc = "connect"

\* C7. No summary without generation: an update_daily_summary that finds no
\* reading of today with active power > 0 leaves daily_summary as it is, and
\* every date that has a daily_summary row has a reading with positive power.
NoSummaryWithoutGeneration ==
  /\ [][(pc = "summary" /\ result' = "ok"
           /\ Generating(readings, Today(clock')) = {})
          => daily_summary' = daily_summary]_vars
  /\ [](\A d \in DOMAIN daily_summary : Generating(readings, d) # {})

\* update_daily_summary ran on a date whose readings all have power 0, with a
\* summary of another date in the table.
NoSummaryWitness ==
  /\ Refreshed
  /\ OnDate(readings, Today(clock)) # {}
  /\ Generating(readings, Today(clock)) = {}
  /\ daily_summary # << >>

\* C8. Register decoding: the signed 16-bit field is v or v - 65536, the
\* unsigned 32-bit fields are hi * 65536 + lo, the signed 32-bit field is that
\* value or that value - 4294967296; words (1, 9029) give power 74565.
DecodingCorrect ==
  (pc = "read" /\ rx.read # 0 /\ Len(rx.words) >= Indexed(rx.read)) =>
    LET hi == rx.words[1]
        lo == IF Len(rx.words) >= 2 THEN rx.words[2] ELSE 0
    IN  /\ rx.read = 7 =>
             data.temperature_c = IF hi <= 32767 THEN hi ELSE hi - 65536
        /\ rx.read = 1 =>
             /\ data.active_power_w = <<hi, lo>>
             /\ hi <= 32767 => AsInt(data.active_power_w) = hi * 65536 + lo
             /\ (hi = 1 /\ lo = 9029) => AsInt(data.active_power_w) = 74565
        /\ rx.read = 10 =>
             /\ data.energy_total_kwh = <<hi, lo>>
             /\ hi <= 32767 => AsInt(data.energy_total_kwh) = hi * 65536 + lo
        /\ rx.read = 2 =>
             /\ data.reactive_power_var =
                  IF hi <= 32767 THEN <<hi, lo>> ELSE <<hi - 65536, lo>>
             /\ AsInt(data.reactive_power_var) =
                  IF hi <= 32767 THEN hi * 65536 + lo
                  ELSE (hi - 65536) * 65536 + lo

\* The words 0x0001, 0x2345 were read as the active power.
DecodingWitness ==
  /\ pc = "read"
  /\ rx = [read |-> 1, words |-> <<1, 9029>>]
  /\ AsInt(data.active_power_w) = 74565

\* C9. Wrong word count: a cycle in which an answer had a number of words
\* other than the number asked for is aborted with a read failure.
WrongCountAborts ==
  oddLen => (pc = "sleep" /\ result = "read_failed")

\* C10. Append monotonicity: readings are in timestamp order in their order of
\* insertion, and the reading api_live returns is the one appended last.
AppendMonotone ==
  /\ \A i, j \in 1..Len(readings) :
       i < j => TsLeq(readings[i].timestamp, readings[j].timestamp)
  /\ readings # << >> => ApiLive(readings, tieBreak) = Len(readings)

\* Two successful cycles on either side of midnight.
AppendMonotoneWitness ==
  /\ Len(readings) >= 2
  /\ DateOf(readings[1].timestamp) < DateOf(readings[Len(readings)].timestamp)
  /\ result = "ok"

\* ------------------------------------------------------- dashboard claims
\* The request last answered was api_history with the given resolution.
History(resolution) ==
  /\ request.endpoint = "history"
  /\ "resolution" \in DOMAIN request.args
  /\ request.args.resolution = resolution

Ranged == {"start", "end"} \subseteq DOMAIN request.args

\* The readings of hour h of date d, d being within lo..hi.
InHour(d, h, lo, hi) ==
  { i \in 1..Len(readings) :
      /\ readings[i].timestamp[1] = d
      /\ readings[i].timestamp[2] \div HourLen = h
      /\ lo <= d
      /\ d <= hi }

\* C11. Hourly bucketing: the answer to api_history with resolution=hourly and
\* a range start..end has exactly one bucket for each UTC hour with a reading
\* dated within the range and none for any other hour, the buckets are in
\* chronological order, active_power_w is the mean and peak_power_w the
\* maximum of the active power of the hour's readings; an hour whose readings
\* are one of power 100 and one of power 300 has mean 200 and peak 300.
HourlyBucketing ==
  (History("hourly") /\ Ranged) =>
    LET lo == request.args.start
        hi == request.args.end
        b == response.body
    IN  /\ \A d \in 0..QueryToday, h \in 0..((DayLen - 1) \div HourLen) :
             Cardinality({ n \in DOMAIN b : b[n].timestamp = <<d, h * HourLen>> })
               = IF InHour(d, h, lo, hi) = {} THEN 0 ELSE 1
        /\ \A n \in DOMAIN b :
             LET R == InHour(b[n].timestamp[1], b[n].timestamp[2] \div HourLen, lo, hi)
                 P == { readings[i].active_power_w : i \in R }
             IN  /\ R # {}
                 /\ b[n].active_power_w[1] * Cardinality(R)
                      = SumOf(readings, "active_power_w", R) * b[n].active_power_w[2]
                 /\ b[n].peak_power_w \in P
                 /\ \A x \in P : x <= b[n].peak_power_w
                 /\ (P = {100, 300} /\ Cardinality(R) = 2) =>
                      /\ b[n].active_power_w[1] = 200 * b[n].active_power_w[2]
                      /\ b[n].peak_power_w = 300
        /\ \A m, n \in DOMAIN b : m < n => TsLess(b[m].timestamp, b[n].timestamp)

\* Readings of power 100 and 300 in the first hour of day 0 and one more in
\* its second hour: the answer has the two buckets.
HourlyBucketingWitness ==
  /\ History("hourly")
  /\ Ranged
  /\ Len(readings) = 3
  /\ readings[1].active_power_w = 100
  /\ readings[2].active_power_w = 300
  /\ readings[2].timestamp = <<0, 1>>
  /\ readings[3].timestamp = <<0, HourLen>>
  /\ Len(response.body) = 2
  /\ response.body[1].active_power_w = <<400, 2>>
  /\ response.body[1].peak_power_w = 300

\* The request last answered was api_history with an end and no start.
EndOnly ==
  /\ request.endpoint = "history"
  /\ "end" \in DOMAIN request.args
  /\ "start" \notin DOMAIN request.args

\* The answer of api_history to the request last answered, had it given start.
WithStart(start) ==
  ApiHistory(readings,
             [x \in DOMAIN request.args \cup {"start"} |->
                IF x = "start" THEN start ELSE request.args[x]],
             clock, tieBreak)

\* C12 as claimed. Default range: a request with an end and no start is
\* answered as the request with start = 7 days before that end.
StartSevenBeforeEnd ==
  EndOnly => response.body = WithStart(request.args.end - HistoryDays)

\* C12 as amended. Default range: a request with an end and no start is
\* answered as the request with start = 7 days before the current UTC date,
\* whatever the end.
StartSevenBeforeNow ==
  EndOnly => response.body = WithStart(Today(clock) - HistoryDays)

\* end is the current date: the reading of 7 days ago is returned, those of
\* the days before are not.
StartSevenBeforeNowWitness ==
  /\ EndOnly
  /\ request.args.end = Today(clock)
  /\ "resolution" \notin DOMAIN request.args
  /\ Len(readings) = 2
  /\ readings[1].timestamp[1] < Today(clock) - HistoryDays
  /\ Len(response.body) = 1
  /\ response.body[1].timestamp = <<Today(clock) - HistoryDays, 0>>

\* C13. Malformed resolution: a request to api_history whose resolution is
\* none of raw, hourly, daily is answered with an error status, not with the
\* rows the raw resolution gives.
UnknownResolutionRejected ==
  (/\ request.endpoint = "history"
   /\ "resolution" \in DOMAIN request.args
   /\ request.args.resolution \notin {"raw", "hourly", "daily"}) =>
    /\ response.status >= 400
    /\ response.body # ApiHistory(readings,
                                  [request.args EXCEPT !.resolution = "raw"],
                                  clock, tieBreak)

\* The request last answered was api_daily_summary over an empty
\* daily_summary: the rows are the fallback's.
FellBack == request.endpoint = "daily_summary" /\ daily_summary = << >>

\* C14. Fallback equivalence: over an empty daily_summary, api_daily_summary
\* with the default of days answers one row for each date with a generating
\* reading, equal column by column to the row update_daily_summary computes
\* for that date from the same readings and POLL_INTERVAL.
FallbackEquivalent ==
  (FellBack /\ "days" \notin DOMAIN request.args) =>
    LET b == response.body
    IN  /\ { b[n].date : n \in DOMAIN b }
             = { d \in 0..QueryToday : Generating(readings, d) # {} }
        /\ \A n \in DOMAIN b :
             LET row == SummaryRow(readings, b[n].date, tieBreak)
             IN  /\ b[n].energy_kwh = row.energy_kwh
                 /\ b[n].peak_power_w = row.peak_power_w
                 /\ RatEq(b[n].avg_temperature_c, row.avg_temperature_c)
                 /\ b[n].peak_power_time = row.peak_power_time
                 /\ RatEq(b[n].generation_hours, row.generation_hours)

\* The range of the api_history request last answered, and its readings.
RangeStart == ArgsGet(request.args, "start", DefaultStart(clock))
RangeEnd == ArgsGet(request.args, "end", Today(clock))
Ranging ==
  { i \in 1..Len(readings) :
      /\ RangeStart <= readings[i].timestamp[1]
      /\ readings[i].timestamp[1] <= RangeEnd }

\* C15. Omission: api_history answers a range without readings with the empty
\* sequence, at every resolution, and every row it answers with is a reading
\* of the range (raw), or a date or an hour in which the range has a reading,
\* with a peak that is no NULL; the fallback of api_daily_summary answers with
\* the empty sequence when no reading has positive power, and each of its rows
\* is a date with such a reading and carries its positive peak.
Omission ==
  /\ request.endpoint = "history" =>
       LET b == response.body
           res == ArgsGet(request.args, "resolution", "raw")
       IN  /\ Ranging = {} => Len(b) = 0
           /\ \A n \in DOMAIN b :
                \E i \in Ranging :
                  IF res = "hourly"
                  THEN /\ b[n].timestamp = HourStart(readings[i].timestamp)
                       /\ b[n].peak_power_w # NULL
                  ELSE IF res = "daily"
                  THEN /\ b[n].timestamp = readings[i].timestamp[1]
                       /\ b[n].peak_power_w # NULL
                  ELSE b[n].timestamp = readings[i].timestamp
  /\ FellBack =>
       LET b == response.body
           P == { i \in 1..Len(readings) : readings[i].active_power_w > 0 }
       IN  /\ P = {} => Len(b) = 0
           /\ \A n \in DOMAIN b :
                /\ b[n].peak_power_w > 0
                /\ \E i \in P : b[n].date = readings[i].timestamp[1]

\* The hourly resolution over a range without readings, the table having
\* readings on other dates: the answer is the empty sequence.
OmissionWitness ==
  /\ History("hourly")
  /\ Ranged
  /\ request.args.start <= request.args.end
  /\ Len(readings) = MaxReadings
  /\ Ranging = {}
  /\ response.status = 200
  /\ response.body = << >>

\* The fallback over readings none of which has positive power.
OmissionFallbackWitness ==
  /\ FellBack
  /\ Len(readings) = MaxReadings
  /\ \A i \in 1..Len(readings) : readings[i].active_power_w = 0
  /\ response.status = 200
  /\ response.body = << >>

\* ------------------------------------------------------- collector claims
\* The table rs without the reading of date d that was appended last.
AllButLast(rs, d) ==
  LET I == OnDate(rs, d)
      last == CHOOSE i \in I : \A k \in I : k <= i
  IN  IF I = {} THEN rs
      ELSE [n \in 1..(Len(rs) - 1) |-> IF n < last THEN rs[n] ELSE rs[n + 1]]

\* daily_summary holds for date d what update_daily_summary makes of rs: the
\* summary row of d, or no row when rs has no generating reading of d.
Reflects(rs, d) ==
  IF Generating(rs, d) = {} THEN d \notin DOMAIN daily_summary
  ELSE /\ d \in DOMAIN daily_summary
       /\ daily_summary[d] = SummaryRow(rs, d, tieBreak)

\* C16. Summary staleness bound: in every state of the database that a
\* dashboard request can read, the daily_summary row of each date is the
\* summary of all readings of that date, or of all but the one appended last.
SummaryAtMostOneBehind ==
  \A d \in Dates :
    Reflects(readings, d) \/ Reflects(AllButLast(readings, d), d)

\* The register addresses in the order in which a cycle is to read them.
ReadOrder == <<3004, 3006, 3021, 3023, 3035, 3038, 3041, 3042, 3014, 3008, 3043>>

\* C17. Session lifecycle: a cycle opens one device session (none when the
\* constructor raises, and then it reads nothing); the reads it issues are the
\* first so many of the fixed order, all eleven when none failed; while it
\* reads the session is open and disconnect has not been called; from the end
\* of read_inverter to the start of the next cycle the session is not open and
\* disconnect has been called exactly once for a session that was opened; and
\* after a read has failed no further read is issued in that cycle.
SessionLifecycle ==
  /\ [](/\ wire.opens <= 1
        /\ Len(wire.reads) <= Len(ReadOrder)
        /\ wire.reads = SubSeq(ReadOrder, 1, Len(wire.reads))
        /\ pc = "read" =>
             /\ wire.opens = 1
             /\ wire.closes = 0
             /\ session = "open"
             /\ Len(wire.reads) = step - 1
        /\ pc # "read" =>
             /\ wire.closes = wire.opens
             /\ session # "open"
        /\ pc \in {"store", "summary"} =>
             /\ wire.opens = 1
             /\ wire.reads = ReadOrder
        /\ result = "read_failed" =>
             /\ pc \in {"sleep", "connect"}
             /\ wire.opens = 1
             /\ Len(wire.reads) = step
        /\ result = "connect_failed" => wire.opens = 0 /\ wire.reads = << >>
        /\ result \in {"ok", "store_failed", "summary_failed"} =>
             wire.opens = 1 /\ wire.reads = ReadOrder)
  /\ [][/\ wire'.reads # wire.reads =>
             \/ pc = "read" /\ result = "running"
             \/ pc = "connect" /\ wire'.reads = << >>
        /\ wire'.closes # wire.closes =>
             \/ pc = "read" /\ pc' # "read" /\ wire'.closes = 1
             \/ pc = "connect" /\ wire'.closes = 0]_vars

\* The fifth read of a cycle failed: five reads were issued, the session was
\* closed once, and the loop is at its sleep.
SessionLifecycleWitness ==
  /\ pc = "sleep"
  /\ result = "read_failed"
  /\ step = 5
  /\ wire = [opens |-> 1, closes |-> 1, reads |-> <<3004, 3006, 3021, 3023, 3035>>]
  /\ session = "closed"
  /\ Len(readings) > 0

\* C18. Append-only store: a step changes readings only by appending one row
\* to the rows there are, which stay as they were, and only store_reading
\* does; a successful cycle has appended exactly one row to the table it
\* found; daily_summary is changed by update_daily_summary alone, so a
\* dashboard request, like every other step, leaves both tables as they were.
AppendOnly ==
  /\ [][/\ readings' # readings =>
             /\ pc = "store"
             /\ pc' = "summary"
             /\ Len(readings') = Len(readings) + 1
             /\ SubSeq(readings', 1, Len(readings)) = readings
        /\ daily_summary' # daily_summary => pc = "summary" /\ result' = "ok"
        /\ (request' # request \/ response' # response) =>
             UNCHANGED <<readings, daily_summary>>]_vars
  /\ [](result = "ok" =>
          /\ Len(readings) = Len(startReadings) + 1
          /\ SubSeq(readings, 1, Len(startReadings)) = startReadings)

\* A successful cycle has filled the table up, one row onto those it found.
AppendOnlyWitness ==
  /\ pc = "sleep"
  /\ result = "ok"
  /\ Len(readings) = MaxReadings
  /\ Len(startReadings) = MaxReadings - 1
  /\ SubSeq(readings, 1, MaxReadings - 1) = startReadings

\* a <= b for two fractions with positive denominators.
RatLeq(a, b) == a[1] * b[2] <= b[1] * a[2]

\* C19. Summary monotonicity and frame: a step that adds or changes a row of
\* daily_summary is update_daily_summary's, and the row is the one of the date
\* it read from the clock; no row is removed; and a row that is rewritten has
\* energy_kwh, peak_power_w and generation_hours no smaller than before.
SummaryFrameMonotone ==
  [][\A d \in Dates :
       /\ d \in DOMAIN daily_summary => d \in DOMAIN daily_summary'
       /\ (/\ d \in DOMAIN daily_summary'
           /\ (d \notin DOMAIN daily_summary \/ daily_summary'[d] # daily_summary[d])) =>
            /\ pc = "summary"
            /\ d = Today(clock')
       /\ (d \in DOMAIN daily_summary /\ d \in DOMAIN daily_summary') =>
            /\ daily_summary[d].energy_kwh <= daily_summary'[d].energy_kwh
            /\ daily_summary[d].peak_power_w <= daily_summary'[d].peak_power_w
            /\ RatLeq(daily_summary[d].generation_hours,
                      daily_summary'[d].generation_hours)]_vars

\* Day 0 was refreshed over a first reading of 800 W and 12 on the counter and
\* again over a second of 500 W and 5, and day 1 has its own row.
SummaryFrameMonotoneWitness ==
  /\ Len(readings) = 3
  /\ readings[1].energy_today_kwh = 12 /\ readings[1].active_power_w = 800
  /\ readings[2].energy_today_kwh = 5 /\ readings[2].active_power_w = 500
  /\ readings[2].timestamp[1] = 0
  /\ DOMAIN daily_summary = {0, 1}
  /\ daily_summary[0].energy_kwh = 12
  /\ daily_summary[0].peak_power_w = 800
  /\ daily_summary[0].generation_hours = <<2 * POLL_INTERVAL, 60>>
  /\ daily_summary[1].energy_kwh = 5
====
